---- MODULE Spec2Model ----
(***************************************************************************)
(* Model of the PurchaseModal controller (src/unnamed/part_000).           *)
(*                                                                         *)
(* State: the component's React state (step, error), Formik's submitting   *)
(* flag, window.accountId, the query cache entries "userInfo" and          *)
(* "preview", the registration requests in flight, the Sentry log and the  *)
(* checkout events.  One action per handler: the userInfo effect,          *)
(* onSubmit, the onSuccess and onError callbacks handed to mutate, and the *)
(* setStep handed to StepTwo.  Each mutate call runs exactly one of its     *)
(* callbacks, when its own request completes; a later submit cancels       *)
(* nothing.  `last` records which handler ran last, on which request, with *)
(* which input, the calls it made in order, and step and error before it.  *)
(***************************************************************************)
EXTENDS Integers, Sequences, FiniteSets, TLC

VARIABLES
    userInfo,       \* data of useStripeCustomerInfo(): the cached "userInfo" entry
    step,           \* useState step: 1 or 2
    error,          \* useState error: the displayed message, or Null
    accountId,      \* window.accountId
    preview,        \* the cached "preview" entry: "fresh" or "invalidated"
    submitting,     \* Formik's isSubmitting
    inflight,       \* registration requests started by mutate and not yet completed
    nextId,         \* number of the next submission
    reports,        \* the errors handed to Sentry.captureException, in order
    events,         \* number of checkoutEvent calls
    marketplace,    \* the marketplace prop
    effectPending,  \* the [userInfo] effect is due (mount, or userInfo changed)
    last            \* the handler that ran last

vars == <<userInfo, step, error, accountId, preview, submitting, inflight,
          nextId, reports, events, marketplace, effectPending, last>>

----------------------------------------------------------------------------
(* Bounds *)

MaxSubmits == 2

----------------------------------------------------------------------------
(* Values *)

Null == "null"

AccountIds == {"acct_41", "acct_42"}
PaymentMethods == {"pm_visa"}
Emails == {"a@b.com", "c@d.com"}
Marketplaces == {"canonical-ua", "blender"}

\* FormValues: the fields of the form the model follows
FormValues == [email : Emails]
NoValues == [email |-> Null]

\* UserInfo as the controller reads it: userInfo?.customerInfo?.defaultPaymentMethod
UndefinedUserInfo ==
    [defined |-> FALSE, accountId |-> Null, hasCustomerInfo |-> FALSE,
     email |-> Null, defaultPaymentMethod |-> Null]

\* the values useStripeCustomerInfo() fetches: undefined while loading, without
\* customerInfo, or with customerInfo and its defaultPaymentMethod or none
UserInfos ==
    {UndefinedUserInfo}
    \cup [defined : {TRUE}, accountId : {Null}, hasCustomerInfo : {FALSE},
          email : {Null}, defaultPaymentMethod : {Null}]
    \cup [defined : {TRUE}, accountId : {Null}, hasCustomerInfo : {TRUE},
          email : Emails, defaultPaymentMethod : PaymentMethods \cup {Null}]

\* the test of lines 42 and 51: optional chaining, then truthiness
HasDefaultPaymentMethod(u) ==
    u.defined /\ u.hasCustomerInfo /\ u.defaultPaymentMethod # Null

\* the step useState starts with (lines 41-43)
InitialStepDefined(u) == IF u.defined THEN 2 ELSE 1
InitialStep(u) == IF HasDefaultPaymentMethod(u) THEN 2 ELSE 1

\* The displayed messages
SignInMessage ==
    "An Ubuntu One account with this email address exists. Please sign in to your account first."
GenericMessage ==
    "Sorry, there was an unknown error with your credit card. Check the details and try again. Contact Canonical sales if the problem persists."
CardDeclinedMessage == "Your card was declined."
ExpiredCardMessage == "Your card has expired."

\* Error codes a failed registration carries in error.message
EmailExists == "email_already_exists"
KnownCodes == {"card_declined", "expired_card"}
UnknownCodes == {"unexpected_failure"}
Codes == {EmailExists} \cup KnownCodes \cup UnknownCodes

\* getErrorMessage({message: "", code}): the known message of a code, or Null
getErrorMessage(code) ==
    CASE code = "card_declined" -> CardDeclinedMessage
      [] code = "expired_card" -> ExpiredCardMessage
      [] OTHER -> Null

\* What a registration request completes with: the resolved data, or the
\* rejection value (an Error with a message, or a value that is no Error)
Successes ==
    [kind : {"success"}, accountId : AccountIds \cup {Null},
     paymentMethod : PaymentMethods, message : {Null}]
ErrorFailures ==
    [kind : {"error"}, accountId : {Null}, paymentMethod : {Null}, message : Codes]
NonErrorFailure ==
    [kind |-> "nonerror", accountId |-> Null, paymentMethod |-> Null, message |-> Null]
Failures == ErrorFailures \cup {NonErrorFailure}
NoResult ==
    [kind |-> "none", accountId |-> Null, paymentMethod |-> Null, message |-> Null]

\* getUserInfoFromVariables(data, formData)
getUserInfoFromVariables(data, formData) ==
    [defined |-> TRUE, accountId |-> data.accountId, hasCustomerInfo |-> TRUE,
     email |-> formData.email, defaultPaymentMethod |-> data.paymentMethod]

\* the variables object handed to mutate (line 67)
Variables(values, mp) == [formData |-> values, marketplace |-> mp]

Handler(name, id, values, result, calls) ==
    [handler |-> name, id |-> id, values |-> values, result |-> result,
     calls |-> calls, stepBefore |-> step, errorBefore |-> error]

----------------------------------------------------------------------------
(* Construction: the first render of PurchaseModal (lines 39-48) *)

Init ==
    /\ userInfo \in UserInfos
    /\ step = InitialStep(userInfo)
    /\ error = Null
    /\ accountId \in {Null, "acct_41"}
    /\ preview = "fresh"
    /\ submitting = FALSE
    /\ inflight = {}
    /\ nextId = 1
    /\ reports = <<>>
    /\ events = 0
    /\ marketplace \in Marketplaces
    /\ effectPending = TRUE
    /\ last = [handler |-> "init", id |-> 0, values |-> NoValues,
               result |-> NoResult, calls |-> <<>>, stepBefore |-> 0,
               errorBefore |-> Null]

----------------------------------------------------------------------------
(* The effect on [userInfo] (lines 50-54) *)

useEffectUnconditional ==
    /\ effectPending
    /\ effectPending' = FALSE
    /\ step' = 2
    /\ last' = Handler("useEffect", 0, NoValues, NoResult, <<"setStep">>)
    /\ UNCHANGED <<userInfo, error, accountId, preview, submitting, inflight,
                   nextId, reports, events, marketplace>>

useEffectResets ==
    /\ effectPending
    /\ effectPending' = FALSE
    /\ step' = IF HasDefaultPaymentMethod(userInfo) THEN 2 ELSE 1
    /\ last' = Handler("useEffect", 0, NoValues, NoResult, <<"setStep">>)
    /\ UNCHANGED <<userInfo, error, accountId, preview, submitting, inflight,
                   nextId, reports, events, marketplace>>

useEffectNoop ==
    /\ effectPending
    /\ effectPending' = FALSE
    /\ step' = step
    /\ last' = Handler("useEffect", 0, NoValues, NoResult, <<>>)
    /\ UNCHANGED <<userInfo, error, accountId, preview, submitting, inflight,
                   nextId, reports, events, marketplace>>

useEffect ==
    /\ effectPending
    /\ effectPending' = FALSE
    /\ step' = IF HasDefaultPaymentMethod(userInfo) THEN 2 ELSE step
    /\ last' = Handler("useEffect", 0, NoValues, NoResult,
                       IF HasDefaultPaymentMethod(userInfo)
                       THEN <<"setStep">> ELSE <<>>)
    /\ UNCHANGED <<userInfo, error, accountId, preview, submitting, inflight,
                   nextId, reports, events, marketplace>>

----------------------------------------------------------------------------
(* onSubmit (lines 63-68): setError(null), checkoutEvent, mutate.  Formik    *)
(* marks the form as submitting when it hands the values to onSubmit.       *)

\* the error state after line 64
ErrorAfterSubmitKept(cur) == cur
ErrorAfterSubmit(cur) == Null

\* the calls of lines 64-66, in program order
SubmitCallsEventFirst == <<"checkoutEvent", "mutate", "setError">>
SubmitCalls == <<"setError", "checkoutEvent", "mutate">>

\* the request mutate starts (lines 66-67)
Request(id, values) == [id |-> id, variables |-> Variables(values, marketplace)]

onSubmitCancelling(values) ==
    /\ nextId <= MaxSubmits
    /\ error' = ErrorAfterSubmit(error)
    /\ events' = events + 1
    /\ inflight' = {Request(nextId, values)}
    /\ submitting' = TRUE
    /\ nextId' = nextId + 1
    /\ last' = Handler("onSubmit", nextId, values, NoResult, SubmitCalls)
    /\ UNCHANGED <<userInfo, step, accountId, preview, reports, marketplace,
                   effectPending>>

onSubmit(values) ==
    /\ nextId <= MaxSubmits
    /\ error' = ErrorAfterSubmit(error)
    /\ events' = events + 1
    /\ inflight' = inflight \cup {Request(nextId, values)}
    /\ submitting' = TRUE
    /\ nextId' = nextId + 1
    /\ last' = Handler("onSubmit", nextId, values, NoResult, SubmitCalls)
    /\ UNCHANGED <<userInfo, step, accountId, preview, reports, marketplace,
                   effectPending>>

----------------------------------------------------------------------------
(* onSuccess (lines 69-79), run when request r resolves with data *)

\* the value setQueryData stores under "userInfo" (lines 72-75)
SuccessUserInfoLatest(r, data) ==
    LET newest == CHOOSE q \in inflight : \A o \in inflight : o.id <= q.id
    IN  getUserInfoFromVariables(data, newest.variables.formData)
SuccessUserInfo(r, data) ==
    getUserInfoFromVariables(data, r.variables.formData)

\* window.accountId after line 70
SuccessAccountIdFirst(data, cur) == IF cur = Null THEN data.accountId ELSE cur
SuccessAccountIdKept(data, cur) == IF data.accountId = Null THEN cur ELSE data.accountId
SuccessAccountId(data, cur) == data.accountId

SuccessCalls ==
    <<"setAccountId", "setStep", "setQueryData", "invalidateQueries", "setSubmitting">>

onSuccess(r, data) ==
    /\ r \in inflight
    /\ inflight' = inflight \ {r}
    /\ accountId' = SuccessAccountId(data, accountId)
    /\ step' = 2
    /\ userInfo' = SuccessUserInfo(r, data)
    /\ effectPending' = (effectPending \/ userInfo' # userInfo)
    /\ preview' = "invalidated"
    /\ submitting' = FALSE
    /\ last' = Handler("onSuccess", r.id, r.variables.formData, data, SuccessCalls)
    /\ UNCHANGED <<error, nextId, reports, events, marketplace>>

----------------------------------------------------------------------------
(* onError (lines 80-112), run when request r rejects with err *)

\* is err reported to Sentry (line 99)
IsReportedAll(err) == err.kind = "error" /\ err.message # EmailExists
IsReportedNever(err) == FALSE
IsReported(err) ==
    /\ err.kind = "error"
    /\ err.message # EmailExists
    /\ getErrorMessage(err.message) = Null

\* the error state after lines 81-109
ErrorAfterFailureGeneric(err, cur) ==
    IF err.kind = "error" THEN GenericMessage ELSE cur
ErrorAfterFailure(err, cur) ==
    IF err.kind = "error"
    THEN IF err.message = EmailExists
         THEN SignInMessage
         ELSE IF getErrorMessage(err.message) # Null
              THEN getErrorMessage(err.message)
              ELSE GenericMessage
    ELSE cur

\* Formik's submitting flag after line 111
SubmittingAfterFailureInside(err, cur) == IF err.kind = "error" THEN FALSE ELSE cur
SubmittingAfterFailure(err, cur) == FALSE

ErrorCalls(err) ==
    (IF IsReported(err) THEN <<"captureException">> ELSE <<>>)
    \o (IF err.kind = "error" THEN <<"setError">> ELSE <<>>)
    \o <<"setSubmitting">>

onErrorResetsStep(r, err) ==
    /\ r \in inflight
    /\ inflight' = inflight \ {r}
    /\ error' = ErrorAfterFailure(err, error)
    /\ reports' = IF IsReported(err) THEN Append(reports, err) ELSE reports
    /\ submitting' = SubmittingAfterFailure(err, submitting)
    /\ step' = 1
    /\ last' = Handler("onError", r.id, r.variables.formData, err, ErrorCalls(err))
    /\ UNCHANGED <<userInfo, accountId, preview, nextId, events,
                   marketplace, effectPending>>

onError(r, err) ==
    /\ r \in inflight
    /\ inflight' = inflight \ {r}
    /\ error' = ErrorAfterFailure(err, error)
    /\ reports' = IF IsReported(err) THEN Append(reports, err) ELSE reports
    /\ submitting' = SubmittingAfterFailure(err, submitting)
    /\ last' = Handler("onError", r.id, r.variables.formData, err, ErrorCalls(err))
    /\ UNCHANGED <<userInfo, step, accountId, preview, nextId, events,
                   marketplace, effectPending>>

----------------------------------------------------------------------------
(* setStep as handed to StepTwo (lines 127-130), which is rendered only     *)
(* while step is not 1: the user navigates back to step 1                  *)

StepTwoSetStep ==
    /\ step = 2
    /\ step' = 1
    /\ last' = Handler("StepTwo.setStep", 0, NoValues, NoResult, <<"setStep">>)
    /\ UNCHANGED <<userInfo, error, accountId, preview, submitting, inflight,
                   nextId, reports, events, marketplace, effectPending>>

----------------------------------------------------------------------------
(* The query layer: a refetch of "userInfo" or of an invalidated "preview" *)

UserInfoFetched(u) ==
    /\ u # userInfo
    /\ userInfo' = u
    /\ effectPending' = TRUE
    /\ last' = Handler("userInfo.refetch", 0, NoValues, NoResult, <<>>)
    /\ UNCHANGED <<step, error, accountId, preview, submitting, inflight,
                   nextId, reports, events, marketplace>>

PreviewFetched ==
    /\ preview = "invalidated"
    /\ preview' = "fresh"
    /\ last' = Handler("preview.refetch", 0, NoValues, NoResult, <<>>)
    /\ UNCHANGED <<userInfo, step, error, accountId, submitting, inflight,
                   nextId, reports, events, marketplace, effectPending>>

----------------------------------------------------------------------------

Submit == \E values \in FormValues : onSubmit(values)
Succeed == \E r \in inflight : \E data \in Successes : onSuccess(r, data)
Fail == \E r \in inflight : \E err \in Failures : onError(r, err)
Complete == Succeed \/ Fail

Next ==
    \/ useEffect
    \/ Submit
    \/ Succeed
    \/ Fail
    \/ StepTwoSetStep
    \/ \E u \in UserInfos : UserInfoFetched(u)
    \/ PreviewFetched

Spec == Init /\ [][Next]_vars

\* every request in flight completes
FairSpec == Spec /\ WF_vars(Complete)

----------------------------------------------------------------------------
(* Properties *)

IsCallback(h) == h \in {"onSuccess", "onError"}
FailedWith(l, code) ==
    l.handler = "onError" /\ l.result.kind = "error" /\ l.result.message = code
FailedUnrecognized(l) ==
    /\ l.handler = "onError"
    /\ l.result.kind = "error"
    /\ l.result.message # EmailExists
    /\ getErrorMessage(l.result.message) = Null

\* C1: a step of the controller takes step from 1 to 2 only if it is the
\* userInfo effect, run on a userInfo that has a default payment method, or an
\* onSuccess callback; onSubmit and onError never do.
StepAdvancesOnlyByEffectOrSuccess ==
    [][(step = 1 /\ step' = 2) =>
          \/ last'.handler = "onSuccess"
          \/ /\ last'.handler = "useEffect"
             /\ userInfo.defined
             /\ userInfo.hasCustomerInfo
             /\ userInfo.defaultPaymentMethod \in PaymentMethods]_vars

\* the effect has taken step from 1 to 2 after a failed submission
EffectAdvancedStep ==
    /\ last.handler = "useEffect"
    /\ last.stepBefore = 1
    /\ step = 2
    /\ nextId > 1
    /\ inflight = {}

\* C2 as stated: right after any onSuccess, step is 2 and window.accountId is
\* not null, whatever the response contained.
SuccessGivesStepTwoAndAccount ==
    last.handler = "onSuccess" => (step = 2 /\ accountId # Null)

\* C2 as amended: right after any onSuccess, step is 2 and window.accountId is
\* the accountId of that response, whatever they were before.
SuccessGivesStepTwoAndResponseAccount ==
    last.handler = "onSuccess" =>
        (step = 2 /\ accountId = last.result.accountId)

\* the second request succeeded at step 1 and set the account identifier
SuccessAtStepOneSetAccount ==
    /\ last.handler = "onSuccess"
    /\ last.id = 2
    /\ last.stepBefore = 1
    /\ step = 2
    /\ accountId = "acct_42"

\* C3: the step PurchaseModal starts with is 2 when userInfo has customerInfo
\* with a default payment method, and 1 when userInfo, its customerInfo or the
\* default payment method is absent.
InitialStepFollowsPaymentMethod ==
    last.handler = "init" =>
        /\ (userInfo.defined /\ userInfo.hasCustomerInfo
            /\ userInfo.defaultPaymentMethod \in PaymentMethods) => step = 2
        /\ (~userInfo.defined \/ ~userInfo.hasCustomerInfo
            \/ userInfo.defaultPaymentMethod = Null) => step = 1

\* PurchaseModal was created on a userInfo with a default payment method
CreatedWithPaymentMethod ==
    /\ last.handler = "init"
    /\ userInfo.defined
    /\ userInfo.defaultPaymentMethod = "pm_visa"
    /\ step = 2

\* C4: an onError for an Error whose message is "email_already_exists" sets the
\* displayed error to the sign-in message, reports nothing to Sentry and leaves
\* step as it was.
EmailExistsShowsSignIn ==
    [][FailedWith(last', EmailExists) =>
          /\ error' = SignInMessage
          /\ reports' = reports
          /\ step' = step]_vars

\* such a failure arrived at step 2, after an unrecognized one was reported
EmailExistsFailed ==
    /\ FailedWith(last, EmailExists)
    /\ last.stepBefore = 2
    /\ last.errorBefore = Null
    /\ Len(reports) = 1

\* C5: an onError for an Error whose message is neither "email_already_exists"
\* nor a code getErrorMessage knows hands that error to Sentry exactly once and
\* sets the displayed error to the generic message.
UnrecognizedIsReportedOnce ==
    [][FailedUnrecognized(last') =>
          /\ reports' = Append(reports, last'.result)
          /\ error' = GenericMessage]_vars

\* a second unrecognized failure has been reported
UnrecognizedFailedTwice ==
    /\ FailedUnrecognized(last)
    /\ Len(reports) = 2
    /\ error = GenericMessage

\* C6: right after every onSubmit the displayed error is null.
SubmitClearsError ==
    last.handler = "onSubmit" => error = Null

\* a submit made while the message of an earlier failure was displayed
ResubmittedAfterFailure ==
    /\ last.handler = "onSubmit"
    /\ last.errorBefore = GenericMessage
    /\ error = Null

\* C7: right after any onSuccess the displayed error is null, also when the
\* failure of an earlier request arrived after the later request was submitted.
SuccessLeavesNoError ==
    last.handler = "onSuccess" => error = Null

\* every callback of a completed request sets submitting to false
CallbackEndsSubmitting ==
    [][IsCallback(last'.handler) => ~submitting']_vars

\* an onError starts no request and emits no checkout event
FailureStartsNoRequest ==
    [][last'.handler = "onError" =>
          (inflight' \subseteq inflight /\ nextId' = nextId
           /\ events' = events)]_vars

\* C8: every callback of a completed request, for a success and for every
\* failure value, sets submitting to false; a failure starts no request; and
\* when every request completes, a submitting form eventually is not.
SubmissionAlwaysCompletes ==
    /\ CallbackEndsSubmitting
    /\ FailureStartsNoRequest
    /\ (submitting ~> ~submitting)

\* a failure with a value that is no Error has ended the submission
NonErrorFailureEndedSubmitting ==
    /\ last.handler = "onError"
    /\ last.result.kind = "nonerror"
    /\ ~submitting
    /\ inflight = {}

\* C9: right after an onSuccess the cached userInfo is the value derived from
\* the response and the form data of the request that succeeded, it carries
\* the accountId of that response, and the cached preview is invalidated.
SuccessCachesOwnUserInfo ==
    last.handler = "onSuccess" =>
        /\ userInfo = getUserInfoFromVariables(last.result, last.values)
        /\ userInfo.email = last.values.email
        /\ userInfo.accountId = last.result.accountId
        /\ preview = "invalidated"

\* the earlier request succeeded while a later one with other form data was
\* still in flight
EarlierRequestSucceededFirst ==
    /\ last.handler = "onSuccess"
    /\ last.id = 1
    /\ \E q \in inflight :
          q.id = 2 /\ q.variables.formData.email # last.values.email
    /\ userInfo.accountId = "acct_42"

\* C10: every onSubmit calls setError, then checkoutEvent, then mutate, each
\* once; the error is null after it; one checkout event is counted; and the
\* one request started carries the values of that submit and the marketplace.
SubmitOrder ==
    [][last'.handler = "onSubmit" =>
          /\ last'.calls = <<"setError", "checkoutEvent", "mutate">>
          /\ error' = Null
          /\ events' = events + 1
          /\ \E q \in inflight' :
                /\ q \notin inflight
                /\ inflight' = inflight \cup {q}
                /\ q.variables.formData = last'.values
                /\ q.variables.marketplace = marketplace]_vars

\* a second submit made while the first request was in flight
SubmittedTwice ==
    /\ last.handler = "onSubmit"
    /\ last.id = 2
    /\ Cardinality(inflight) = 2
    /\ events = 2

\* C11: no step of the controller takes step from 2 to 1: not the userInfo
\* effect, onSubmit, onSuccess or onError, nor a refetch; only the setStep
\* handed to StepTwo does.
StepRegressesOnlyByStepTwo ==
    [][(step = 2 /\ step' = 1) => last'.handler = "StepTwo.setStep"]_vars

\* after a success the userInfo effect ran at step 2 on a refetched userInfo
\* without a default payment method, and step stayed 2
EffectKeptStepTwo ==
    /\ last.handler = "useEffect"
    /\ last.stepBefore = 2
    /\ step = 2
    /\ preview = "invalidated"
    /\ ~HasDefaultPaymentMethod(userInfo)

\* C12: right after every onError the displayed error is not null, for every
\* failure value, also one that is no Error.
FailureShowsMessage ==
    last.handler = "onError" => error # Null

FailedKnown(l) ==
    /\ l.handler = "onError"
    /\ l.result.kind = "error"
    /\ l.result.message # EmailExists
    /\ getErrorMessage(l.result.message) # Null

\* C13: an onError for an Error whose code getErrorMessage knows (and is not
\* "email_already_exists") displays exactly that known message and reports
\* nothing; the Sentry log grows by one on an onError for an unrecognized code
\* and on no other step, so it counts those failures.
KnownFailureShowsKnownMessage ==
    /\ [][FailedKnown(last') =>
             /\ error' = getErrorMessage(last'.result.message)
             /\ error' \in {CardDeclinedMessage, ExpiredCardMessage}
             /\ reports' = reports]_vars
    /\ [][Len(reports') =
             Len(reports) + (IF FailedUnrecognized(last') THEN 1 ELSE 0)]_vars
    /\ [](\A i \in 1..Len(reports) :
             /\ reports[i].kind = "error"
             /\ reports[i].message \in UnknownCodes)

\* a known failure followed an unrecognized one: one report, the known message
KnownFailedAfterUnrecognized ==
    /\ FailedKnown(last)
    /\ last.id = 2
    /\ last.errorBefore = Null
    /\ Len(reports) = 1
    /\ error = ExpiredCardMessage

\* C14: a submit is accepted whatever is in flight and cancels no request;
\* every request in flight can complete next, whichever was submitted first;
\* and each onSuccess writes window.accountId and the cached userInfo from its
\* own request, so the callbacks take effect in completion order.
OverlappingSubmitsUnguarded ==
    /\ [](nextId <= MaxSubmits => ENABLED Submit)
    /\ [][last'.handler = "onSubmit" =>
             (inflight \subseteq inflight'
              /\ Cardinality(inflight') = Cardinality(inflight) + 1)]_vars
    /\ [](\A r \in inflight :
             /\ ENABLED (\E data \in Successes : onSuccess(r, data))
             /\ ENABLED (\E err \in Failures : onError(r, err)))
    /\ [][IsCallback(last'.handler) =>
             \E r \in inflight : r.id = last'.id /\ inflight' = inflight \ {r}]_vars
    /\ [][last'.handler = "onSuccess" =>
             /\ accountId' = last'.result.accountId
             /\ userInfo' = getUserInfoFromVariables(last'.result, last'.values)]_vars

\* both requests were submitted before either completed, request 2 completed
\* first, and the success of request 1 ran last: the account identifier and
\* the cached userInfo are those of request 1
EarlierSuccessRanLast ==
    /\ last.handler = "onSuccess"
    /\ last.id = 1
    /\ nextId = 3
    /\ inflight = {}
    /\ events = 2
    /\ last.result.accountId = "acct_41"
    /\ accountId = "acct_41"
    /\ userInfo.accountId = "acct_41"
    /\ userInfo.email = last.values.email

\* C15: an onError, for every failure value, leaves step, window.accountId,
\* the cached userInfo and the cached preview as they were; of the displayed
\* state it changes only error, the Sentry log and submitting.
FailureLeavesPurchaseState ==
    [][last'.handler = "onError" =>
          /\ step' = step
          /\ accountId' = accountId
          /\ userInfo' = userInfo
          /\ preview' = preview
          /\ effectPending' = effectPending
          /\ events' = events
          /\ marketplace' = marketplace]_vars

\* a failure arrived at step 2 after the success of the other request had set
\* the account identifier, the cached userInfo and invalidated the preview
FailedAfterSuccess ==
    /\ last.handler = "onError"
    /\ last.result.kind = "error"
    /\ last.stepBefore = 2
    /\ step = 2
    /\ accountId = "acct_42"
    /\ userInfo.accountId = "acct_42"
    /\ preview = "invalidated"
    /\ error # Null

\* C16: window.accountId changes only in an onSuccess; the controller writes
\* the cached userInfo only in an onSuccess (any other change is a refetch);
\* each onSuccess writes both from the one response it was called with; hence
\* in every state a cached userInfo that carries an account identifier
\* carries window.accountId, under every interleaving of the callbacks.
AccountIdAndCacheAgree ==
    /\ [][accountId' # accountId => last'.handler = "onSuccess"]_vars
    /\ [][userInfo' # userInfo =>
             last'.handler \in {"onSuccess", "userInfo.refetch"}]_vars
    /\ [][last'.handler = "onSuccess" =>
             /\ accountId' = last'.result.accountId
             /\ userInfo' = getUserInfoFromVariables(last'.result, last'.values)
             /\ userInfo'.accountId = accountId']_vars
    /\ [](userInfo.accountId # Null => userInfo.accountId = accountId)

\* request 2 succeeded with one account, then request 1 with another: both
\* window.accountId and the cached userInfo are those of the last response
BothFromLastResponse ==
    /\ last.handler = "onSuccess"
    /\ last.id = 1
    /\ last.stepBefore = 2
    /\ nextId = 3
    /\ inflight = {}
    /\ last.result.accountId = "acct_42"
    /\ accountId = "acct_42"
    /\ userInfo.accountId = "acct_42"

\* C17: the userInfo effect runs after every change of userInfo; run on a
\* userInfo with customerInfo.defaultPaymentMethod it sets step to 2, whatever
\* step was, also after the user went back to step 1 from StepTwo; run on a
\* userInfo without one it leaves step as it was.
EffectForcesStepTwo ==
    /\ [][userInfo' # userInfo => effectPending']_vars
    /\ [][last'.handler = "useEffect" =>
             /\ effectPending /\ ~effectPending'
             /\ (userInfo.defined /\ userInfo.hasCustomerInfo
                 /\ userInfo.defaultPaymentMethod \in PaymentMethods) => step' = 2
             /\ (~userInfo.defined \/ ~userInfo.hasCustomerInfo
                 \/ userInfo.defaultPaymentMethod = Null) => step' = step]_vars

\* after a success (step 2) the user went back to step 1, and the effect, run
\* on a userInfo with a default payment method, put step back to 2
EffectOverrodeNavigation ==
    /\ last.handler = "useEffect"
    /\ last.stepBefore = 1
    /\ step = 2
    /\ preview = "invalidated"
    /\ HasDefaultPaymentMethod(userInfo)

====
